---- MODULE Spec2Model ----
(***************************************************************************)
(* A model of romm-gog-custodian: the torrent import cycle                 *)
(* (torrents.torrent_manager with new_folder, move_torrent_folder and      *)
(* delete_torrent) and the remote scan session (RommAPI.scan_library).     *)
(*                                                                         *)
(* Strings are sequences of one-character strings, so that substring,      *)
(* length, split and strip are computed on the characters as Python does.  *)
(***************************************************************************)
EXTENDS Integers, Sequences, FiniteSets, TLC

(***************************************************************************)
(* Bounds of the model.                                                    *)
(***************************************************************************)
\* longest torrent listing the client returns in one cycle
MaxTorrents == 2
\* largest configured max_torrents_per_run (0 means no cap)
MaxCap == 1
\* most entries of a catalog file
MaxCatalog == 3
\* longest string given to the stripping step
MaxStrLen == 3
\* most game records in the server's inventory
MaxGames == 2

(***************************************************************************)
(* Program constants.                                                      *)
(***************************************************************************)
\* torrents.py: MAX_RETRIES = 3
MAX_RETRIES == 3
\* romm.py scan_library: timeout = 7200
timeout == 7200
\* torrents.py new_folder: len(slug) <= len(new_name) + 10
PARTIAL_SLACK == 10
\* romm_library_cleanup.py find_fragmented: item.get('fs_size_bytes') <= 1100
FRAGMENTED_MAX_BYTES == 1100

(***************************************************************************)
(* Strings.                                                                *)
(***************************************************************************)
\* Python None, for a JSON field that is absent (dict.get without default)
None == <<"<None>">>

\* the literal '_windows_gog_'
WINDOWS_GOG == <<"_", "w", "i", "n", "d", "o", "w", "s", "_", "g", "o", "g", "_">>

\* the characters of the string iterated at line 343: the copyright sign, the
\* registered sign and the trade mark sign, each one character
Glyphs == {"(c)", "(r)", "(tm)"}

\* characters str.strip() removes
Whitespace == {" "}

\* Python: sub in s
Contains(s, sub) ==
    \E i \in 1..(Len(s) - Len(sub) + 1) : SubSeq(s, i, i + Len(sub) - 1) = sub

\* a cut that never happens: the name is kept whole
SplitFirst_NoCut(s, sep) == s

\* Python: s.split(sep)[0], the part of s before the first occurrence of sep
SplitFirst(s, sep) ==
    IF ~Contains(s, sep) THEN s
    ELSE LET i == CHOOSE k \in 1..(Len(s) - Len(sep) + 1) :
                      /\ SubSeq(s, k, k + Len(sep) - 1) = sep
                      /\ \A j \in 1..(k - 1) : SubSeq(s, j, j + Len(sep) - 1) /= sep
         IN SubSeq(s, 1, i - 1)

\* Python: for char in <the three glyphs>: s = s.replace(char, '')
RemoveGlyphs(s) == SelectSeq(s, LAMBDA c : c \notin Glyphs)

RECURSIVE LStrip(_)
LStrip(s) == IF s /= <<>> /\ Head(s) \in Whitespace THEN LStrip(Tail(s)) ELSE s

RECURSIVE RStrip(_)
RStrip(s) ==
    IF s /= <<>> /\ s[Len(s)] \in Whitespace THEN RStrip(SubSeq(s, 1, Len(s) - 1)) ELSE s

\* Python: s.strip()
Strip(s) == RStrip(LStrip(s))

(***************************************************************************)
(* Catalog Matcher: torrents.new_folder.                                   *)
(* A catalog entry is [slug |-> string or None, title |-> string or None]. *)
(***************************************************************************)
\* item.get('slug', ''): the slug, '' when the field is absent
SlugOrEmpty(item) == IF item.slug = None THEN <<>> ELSE item.slug

\* insertion of item into a list already sorted by slug length, after every
\* element of equal length (sorted() is stable)
RECURSIVE InsertByLen(_, _)
InsertByLen(item, sorted) ==
    IF sorted = <<>> THEN <<item>>
    ELSE IF Len(SlugOrEmpty(Head(sorted))) <= Len(SlugOrEmpty(item))
         THEN <<Head(sorted)>> \o InsertByLen(item, Tail(sorted))
         ELSE <<item>> \o sorted

\* sorted(data, key=lambda x: len(x.get('slug', '')))
RECURSIVE SortedItems(_)
SortedItems(data) ==
    IF data = <<>> THEN <<>>
    ELSE InsertByLen(data[Len(data)], SortedItems(SubSeq(data, 1, Len(data) - 1)))

\* an exact pass that goes on to the last item with that slug
ExactIndex_Last(new_name, data) ==
    IF \E i \in 1..Len(data) : data[i].slug = new_name
    THEN CHOOSE i \in 1..Len(data) :
            /\ data[i].slug = new_name
            /\ \A j \in (i + 1)..Len(data) : data[j].slug /= new_name
    ELSE 0

\* the exact pass: index of the first item with new_name == item.get('slug'), 0 if none
ExactIndex(new_name, data) ==
    IF \E i \in 1..Len(data) : data[i].slug = new_name
    THEN CHOOSE i \in 1..Len(data) :
            /\ data[i].slug = new_name
            /\ \A j \in 1..(i - 1) : data[j].slug /= new_name
    ELSE 0

\* a partial pass whose length bound is exclusive
PartialOk_Strict(new_name, item) ==
    LET slug == SlugOrEmpty(item)
    IN /\ slug /= <<>>
       /\ Contains(slug, new_name)
       /\ Len(slug) < Len(new_name) + PARTIAL_SLACK

\* the test of the partial pass on one item
PartialOk(new_name, item) ==
    LET slug == SlugOrEmpty(item)
    IN /\ slug /= <<>>
       /\ Contains(slug, new_name)
       /\ Len(slug) <= Len(new_name) + PARTIAL_SLACK

\* the partial pass: index into sorted_items of the first item that qualifies, 0 if none
PartialIndex(new_name, sorted_items) ==
    IF \E i \in 1..Len(sorted_items) : PartialOk(new_name, sorted_items[i])
    THEN CHOOSE i \in 1..Len(sorted_items) :
            /\ PartialOk(new_name, sorted_items[i])
            /\ \A j \in 1..(i - 1) : ~PartialOk(new_name, sorted_items[j])
    ELSE 0

\* lines 289-330: the name after the platform-suffix cut and the two passes
\* (a string, or None when the adopted entry has no title)
MatchedName(torrent_name, data) ==
    LET working == SplitFirst(torrent_name, WINDOWS_GOG)
        e == ExactIndex(working, data)
        sorted_items == SortedItems(data)
        p == PartialIndex(working, sorted_items)
    IN IF e /= 0 THEN data[e].title
       ELSE IF p /= 0 THEN sorted_items[p].title
       ELSE working

\* a stripping step that trims before it removes the glyphs
StripStep_TrimFirst(s) == RemoveGlyphs(Strip(s))

\* lines 341-347: remove the three glyphs, then trim
StripStep(s) == Strip(RemoveGlyphs(s))

\* lines 341-355: glyph removal, strip, fallback to the original name
CleanName(new_name, torrent_name) ==
    LET stripped == StripStep(new_name)
    IN IF stripped = <<>> THEN torrent_name ELSE stripped

\* new_folder(torrent_name) with the catalog file holding `data`
\* (readable = FALSE: the file is missing or does not parse).
\* Result: [kind |-> "ok", name |-> s], [kind |-> "none"] (returned None), or
\* [kind |-> "raise"]: None.replace raises AttributeError after the try block.
new_folder(torrent_name, data, readable) ==
    IF torrent_name = <<>> THEN [kind |-> "none", name |-> <<>>]
    ELSE IF ~readable THEN [kind |-> "none", name |-> <<>>]
    ELSE LET new_name == MatchedName(torrent_name, data)
         IN IF new_name = None THEN [kind |-> "raise", name |-> <<>>]
            ELSE [kind |-> "ok", name |-> CleanName(new_name, torrent_name)]

(***************************************************************************)
(* Library Relocator: torrents.move_torrent_folder.                        *)
(* A filesystem maps each path to an entry                                 *)
(*   [kind |-> "absent" | "file" | "dir" | "partial", content |-> c]       *)
(* where "partial" is a directory tree left half deleted or half copied,   *)
(* and content names what the tree holds.                                  *)
(***************************************************************************)
Absent == [kind |-> "absent", content |-> "-"]

Exists(fs, p) == fs[p].kind /= "absent"

IsDir(fs, p) == fs[p].kind \in {"dir", "partial"}

\* what the operating system may answer to the three mutating calls
MoveEnv == [rmtree : {"ok", "fail", "partial"},
            rename : BOOLEAN,
            move   : {"ok", "copyFail", "rmSrcFail"}]

\* a deletion whose failure goes unnoticed
Rmtree_ReportsOk(fs, destination, env) ==
    IF IsDir(fs, destination) /\ env.rmtree = "ok"
      THEN [ok |-> TRUE, fs |-> [fs EXCEPT ![destination] = Absent]]
    ELSE IF IsDir(fs, destination) /\ env.rmtree = "partial"
      THEN [ok |-> TRUE, fs |-> [fs EXCEPT ![destination].kind = "partial"]]
    ELSE [ok |-> TRUE, fs |-> fs]

\* shutil.rmtree(destination): succeeds only on a directory; a failure leaves
\* the tree as it was or half deleted
Rmtree(fs, destination, env) ==
    IF IsDir(fs, destination) /\ env.rmtree = "ok"
      THEN [ok |-> TRUE, fs |-> [fs EXCEPT ![destination] = Absent]]
    ELSE IF IsDir(fs, destination) /\ env.rmtree = "partial"
      THEN [ok |-> FALSE, fs |-> [fs EXCEPT ![destination].kind = "partial"]]
    ELSE [ok |-> FALSE, fs |-> fs]

\* os.rename(source, destination), destination absent: all or nothing
Rename(fs, source, destination, env) ==
    IF Exists(fs, source) /\ ~Exists(fs, destination) /\ env.rename
      THEN [ok |-> TRUE,
            fs |-> [fs EXCEPT ![destination] = fs[source], ![source] = Absent]]
    ELSE [ok |-> FALSE, fs |-> fs]

\* a move that copies the tree and forgets to delete the source
ShutilMove_KeepsSource(fs, source, destination, env) ==
    IF ~Exists(fs, source) \/ Exists(fs, destination) THEN [ok |-> FALSE, fs |-> fs]
    ELSE IF env.move = "ok"
      THEN [ok |-> TRUE, fs |-> [fs EXCEPT ![destination] = fs[source]]]
    ELSE [ok |-> FALSE, fs |-> fs]

\* shutil.move(source, destination), destination absent: copy the tree, then
\* delete the source; either half may fail
ShutilMove(fs, source, destination, env) ==
    IF ~Exists(fs, source) \/ Exists(fs, destination) THEN [ok |-> FALSE, fs |-> fs]
    ELSE IF env.move = "ok"
      THEN [ok |-> TRUE,
            fs |-> [fs EXCEPT ![destination] = fs[source], ![source] = Absent]]
    ELSE IF env.move = "copyFail"
      THEN [ok |-> FALSE,
            fs |-> [fs EXCEPT ![destination] = [kind |-> "partial",
                                               content |-> fs[source].content]]]
    ELSE [ok |-> FALSE,
          fs |-> [fs EXCEPT ![destination] = fs[source], ![source].kind = "partial"]]

\* a result that reports a replaced destination only together with success
MoveResult_MasksReplaced(success, replaced, new, fs, ops) ==
    [success |-> success, replaced |-> success /\ replaced, new |-> new, fs |-> fs,
     ops |-> ops]

\* the result of move_torrent_folder: the returned triple, the filesystem it
\* leaves, and the mutating calls it made, in order
MoveResult(success, replaced, new, fs, ops) ==
    [success |-> success, replaced |-> replaced, new |-> new, fs |-> fs, ops |-> ops]

\* a relocator that deletes the old destination before it looks at the source
move_torrent_folder_NoSourceCheck(fs, source, destination, env) ==
    LET del == IF Exists(fs, destination)
               THEN Rmtree(fs, destination, env)
               ELSE [ok |-> TRUE, fs |-> fs]
        replaced == Exists(fs, destination) /\ del.ok
        ops1 == IF Exists(fs, destination) THEN <<"rmtree">> ELSE <<>>
        ren == Rename(del.fs, source, destination, env)
    IN IF ~del.ok THEN MoveResult(FALSE, FALSE, FALSE, del.fs, ops1)
       ELSE IF ren.ok
         THEN MoveResult(TRUE, replaced, TRUE, ren.fs, ops1 \o <<"rename">>)
       ELSE MoveResult(FALSE, replaced, FALSE, ren.fs, ops1 \o <<"rename">>)

move_torrent_folder(fs, source, destination, env) ==
    IF ~Exists(fs, source) THEN MoveResult(FALSE, FALSE, FALSE, fs, <<>>)
    ELSE IF ~IsDir(fs, source) THEN MoveResult(FALSE, FALSE, FALSE, fs, <<>>)
    ELSE
      LET del == IF Exists(fs, destination)
                 THEN Rmtree(fs, destination, env)
                 ELSE [ok |-> TRUE, fs |-> fs]
          replaced == Exists(fs, destination) /\ del.ok
          ops1 == IF Exists(fs, destination) THEN <<"rmtree">> ELSE <<>>
          ren == Rename(del.fs, source, destination, env)
          mov == ShutilMove(ren.fs, source, destination, env)
      IN IF ~del.ok THEN MoveResult(FALSE, FALSE, FALSE, del.fs, ops1)
         ELSE IF ren.ok
           THEN MoveResult(TRUE, replaced, TRUE, ren.fs, ops1 \o <<"rename">>)
         ELSE IF mov.ok
           THEN MoveResult(TRUE, replaced, TRUE, mov.fs, ops1 \o <<"rename", "move">>)
         ELSE MoveResult(FALSE, replaced, FALSE, mov.fs, ops1 \o <<"rename", "move">>)

(***************************************************************************)
(* State.                                                                  *)
(***************************************************************************)
VARIABLES
    mv,                 \* one call of move_torrent_folder on its own: arguments and result
    nf,                 \* one call of new_folder on its own: arguments and result
    st,                 \* the stripping step of new_folder on its own, applied twice
    sw,                 \* one run of romm_library_cleanup.run(): configuration, server, progress
    pc,                 \* position of torrent_manager in the cycle
    cfg,                \* the configuration constants torrent_manager reads
    completed_torrents, \* the listing: before the loop all of it, in the loop the part not yet iterated
    torrent,            \* the loop variable of line 115
    new_name,           \* local of torrent_manager: result of new_folder (line 124)
    success,            \* local of torrent_manager (line 134)
    replaced_any,       \* local of torrent_manager (line 112)
    new_any,            \* local of torrent_manager (line 113)
    fs,                 \* the filesystem: download folders and library folders
    deleted,            \* hashes the torrent client has deleted
    del,                \* the running call of delete_torrent
    scans,              \* scan triggers of the post-import stage not yet run
    ws,                 \* the running call of scan_library and its websocket
    closedScans,        \* the scan_library calls that returned, in order
    log                 \* the kinds of log records written so far

vars == <<mv, nf, st, sw, pc, cfg, completed_torrents, torrent, new_name, success, replaced_any,
          new_any, fs, deleted, del, scans, ws, closedScans, log>>

cycleVars == <<pc, cfg, completed_torrents, torrent, new_name, success, replaced_any,
               new_any, fs, deleted, del, scans, ws, closedScans, log>>

(***************************************************************************)
(* The relocator on its own: every filesystem over two paths, every choice *)
(* of source and destination (the same path included), every answer of the *)
(* operating system.                                                       *)
(***************************************************************************)
MovePaths == {"p", "q"}

MoveEntries == {Absent, [kind |-> "file", content |-> "-"]}
               \cup [kind : {"dir", "partial"}, content : {"a", "b"}]

NoResult == MoveResult(FALSE, FALSE, FALSE, <<>>, <<"pending">>)

\* the operating system has not been asked anything yet
NoAnswer == [rmtree |-> "-", rename |-> FALSE, move |-> "-"]

NoMove == [phase |-> "off", fs |-> <<>>, source |-> "p", destination |-> "p",
           env |-> NoAnswer, out |-> NoResult]

\* new_folder is not called on its own
NoMatch == [phase |-> "off", stem |-> <<>>, suffix |-> <<>>, data |-> <<>>,
            readable |-> FALSE, out |-> [kind |-> "pending", name |-> <<>>]]

\* the stripping step is not applied on its own
NoStrip == [phase |-> "off", s |-> <<>>, once |-> <<>>, twice |-> <<>>]

\* romm_library_cleanup.run() is not running
NoSweep == [pc |-> "off", cfg |-> <<>>, games |-> <<>>, calls |-> <<>>, log |-> {}]

\* a path: a root directory and the name of a folder in it
Path(root, leaf) == [root |-> root, leaf |-> leaf]

\* no torrent: the loop variable before the first iteration
NoTorrent == [hash |-> 0, name |-> <<>>, state |-> "none", content_path |-> Path("-", <<>>)]

\* delete_torrent is not running and has not run
NoDelete == [hash |-> 0, attempt |-> 0, calls |-> 0, result |-> "idle", err |-> "none"]

\* scan_library is not running
NoSession == [state |-> "idle", open |-> FALSE, scan_type |-> "-", apis |-> <<>>,
              io |-> <<>>, elapsed |-> 0, result |-> <<>>, pongs |-> 0, pingsOnly |-> TRUE,
              terminal |-> "-", by |-> "-", returned |-> "-"]

\* torrent_manager is not running
CycleOff ==
    /\ pc = "off"
    /\ cfg = [MAX_TORRENTS_PER_RUN |-> 0, DELETE_AFTER_PROCESSING |-> FALSE,
              ROMM_ENABLE |-> FALSE, ROMM_SCAN_AFTER_IMPORT |-> FALSE]
    /\ completed_torrents = <<>>
    /\ torrent = NoTorrent
    /\ new_name = None
    /\ success = FALSE
    /\ replaced_any = FALSE
    /\ new_any = FALSE
    /\ fs = <<>>
    /\ deleted = {}
    /\ del = NoDelete
    /\ scans = <<>>
    /\ ws = NoSession
    /\ closedScans = <<>>
    /\ log = {}

InitMove ==
    /\ mv \in [phase : {"call"}, fs : [MovePaths -> MoveEntries], source : MovePaths,
               destination : MovePaths, env : {NoAnswer}, out : {NoResult}]
    /\ nf = NoMatch
    /\ st = NoStrip
    /\ sw = NoSweep
    /\ CycleOff

\* success, replaced, new = move_torrent_folder(source, destination)
CallMove ==
    /\ mv.phase = "call"
    /\ \E env \in MoveEnv :
          mv' = [mv EXCEPT !.phase = "returned", !.env = env,
                           !.out = move_torrent_folder(mv.fs, mv.source, mv.destination, env)]
    /\ UNCHANGED <<nf, st, sw>>
    /\ UNCHANGED cycleVars

NextMove == CallMove

SpecMove == InitMove /\ [][NextMove]_vars

(***************************************************************************)
(* The matcher on its own: new_folder called with every name built from a  *)
(* stem and a platform suffix, against every catalog of at most MaxCatalog *)
(* entries, the catalog file readable or not.                              *)
(***************************************************************************)
\* slug + this many more characters
Padded(slug, n) == slug \o [i \in 1..n |-> "-"]

\* catalog records around the name "ab": two with that very slug, two that
\* contain it and are one character longer, one exactly PARTIAL_SLACK longer,
\* one longer than that, one that differs in the separator from "a_b", one
\* without a slug and one without a title
CatalogEntries ==
    { [slug |-> <<"a", "b">>, title |-> <<"A">>],
      [slug |-> <<"a", "b">>, title |-> <<" ", "B", "(r)">>],
      [slug |-> <<"a", "b", "c">>, title |-> <<"C">>],
      [slug |-> <<"x", "a", "b">>, title |-> <<"(tm)">>],
      [slug |-> Padded(<<"a", "b">>, PARTIAL_SLACK), title |-> <<"E">>],
      [slug |-> Padded(<<"a", "b">>, PARTIAL_SLACK + 1), title |-> <<"F">>],
      [slug |-> <<"a", "-", "b">>, title |-> <<"G">>],
      [slug |-> None, title |-> <<"H">>],
      [slug |-> <<"a", "b", "d">>, title |-> None] }

\* json.load(f): the catalogs of at most MaxCatalog records
Catalogs == UNION { [1..n -> CatalogEntries] : n \in 0..MaxCatalog }

\* what a torrent name has before the first '_windows_gog_'
Stems == { <<>>, <<" ">>, <<"a", "b">>, <<"a", "_", "b">> }

\* what it has from there on: nothing, the marker and a build number, or that twice
Suffixes ==
    { <<>>, WINDOWS_GOG \o <<"1">>, WINDOWS_GOG \o <<"1">> \o WINDOWS_GOG \o <<"2">> }

InitMatch ==
    /\ mv = NoMove
    /\ nf \in [phase : {"call"}, stem : Stems, suffix : Suffixes, data : Catalogs,
               readable : {FALSE}, out : {NoMatch.out}]
    /\ st = NoStrip
    /\ sw = NoSweep
    /\ CycleOff

\* new_name = new_folder(torrent_name)
CallNewFolder ==
    /\ nf.phase = "call"
    /\ \E readable \in BOOLEAN :
          nf' = [nf EXCEPT !.phase = "returned", !.readable = readable,
                           !.out = new_folder(nf.stem \o nf.suffix, nf.data, readable)]
    /\ UNCHANGED <<mv, st, sw>>
    /\ UNCHANGED cycleVars

NextMatch == CallNewFolder

SpecMatch == InitMatch /\ [][NextMatch]_vars

(***************************************************************************)
(* The stripping step on its own: applied to every string of at most       *)
(* MaxStrLen characters over letters, whitespace and the three glyphs, and *)
(* then to its own result.                                                 *)
(***************************************************************************)
StripAlphabet == {"a"} \cup Whitespace \cup Glyphs

StripInputs == UNION { [1..n -> StripAlphabet] : n \in 0..MaxStrLen }

InitStrip ==
    /\ mv = NoMove
    /\ nf = NoMatch
    /\ st \in [phase : {"input"}, s : StripInputs, once : {<<>>}, twice : {<<>>}]
    /\ sw = NoSweep
    /\ CycleOff

\* lines 343-347 on the input
StripOnce ==
    /\ st.phase = "input"
    /\ st' = [st EXCEPT !.phase = "once", !.once = StripStep(st.s)]
    /\ UNCHANGED <<mv, nf, sw>>
    /\ UNCHANGED cycleVars

\* lines 343-347 on their own result
StripTwice ==
    /\ st.phase = "once"
    /\ st' = [st EXCEPT !.phase = "twice", !.twice = StripStep(st.once)]
    /\ UNCHANGED <<mv, nf, sw>>
    /\ UNCHANGED cycleVars

NextStrip == StripOnce \/ StripTwice

SpecStrip == InitStrip /\ [][NextStrip]_vars

(***************************************************************************)
(* Import Orchestrator: torrents.torrent_manager, lines 96-145 (the        *)
(* listing, the cap, the loop over the torrents) with delete_torrent.      *)
(***************************************************************************)
\* the catalog file of the cycle: one complete record, one without a title
GOG_ALL_GAMES ==
    << [slug |-> <<"a", "b">>, title |-> <<"A", "B", "(r)">>],
       [slug |-> <<"n", "t", "-", "x">>, title |-> None] >>

\* torrent names: an exact match with a platform suffix, a partial match of
\* the record without a title, and a name nothing matches
TorrentNames ==
    { <<"a", "b">> \o WINDOWS_GOG \o <<"1">>, <<"n", "t">>, <<"z", "z">> }

\* torrent.hash as the text used in paths and contents
HashLeaf == <<"1", "2", "3", "4", "5">>

\* torrent.content_path of the torrent with hash h
SrcPath(h) == Path("dl", <<HashLeaf[h]>>)

\* os.path.join(GAME_PATH, new_name)
DestPath(name) == Path("lib", name)

\* the folder names new_folder can return for the names above
DestNames ==
    { new_folder(n, GOG_ALL_GAMES, TRUE).name :
        n \in { m \in TorrentNames : new_folder(m, GOG_ALL_GAMES, TRUE).kind = "ok" } }

CyclePaths == { SrcPath(h) : h \in 1..MaxTorrents } \cup { DestPath(n) : n \in DestNames }

\* what a listed torrent can be: still seeding, or stopped with any of the names
TorrentKinds ==
    { [name |-> <<"z", "z">>, state |-> "uploading"] }
    \cup [name : TorrentNames, state : {"stoppedUP"}]

\* client.torrents_info(...): the listings of at most MaxTorrents torrents
Listings ==
    UNION { { [h \in 1..n |-> [hash |-> h, name |-> k[h].name, state |-> k[h].state,
                               content_path |-> SrcPath(h)]] :
                k \in [1..n -> TorrentKinds] } : n \in 0..MaxTorrents }

\* the folder tree holding exactly `content`
Dir(content) == [kind |-> "dir", content |-> content]

\* the filesystem at the start of a cycle: the download folders of the hashes
\* in `present` exist, and the library holds an old version of "AB" or nothing
InitFs(present, libOld) ==
    [p \in CyclePaths |->
        IF \E h \in present : p = SrcPath(h)
          THEN Dir(HashLeaf[CHOOSE h \in present : p = SrcPath(h)])
        ELSE IF libOld /\ p = DestPath(<<"A", "B">>) THEN Dir("old")
        ELSE Absent]

\* the state before line 98. ROMM_ENABLE and ROMM_SCAN_AFTER_IMPORT are first
\* read at line 147; here they hold their defaults and InitScan varies them.
Init ==
    /\ mv = NoMove
    /\ nf = NoMatch
    /\ st = NoStrip
    /\ sw = NoSweep
    /\ pc = "start"
    /\ cfg \in [MAX_TORRENTS_PER_RUN : 0..MaxCap, DELETE_AFTER_PROCESSING : BOOLEAN,
                ROMM_ENABLE : {FALSE}, ROMM_SCAN_AFTER_IMPORT : {TRUE}]
    /\ completed_torrents \in Listings
    /\ torrent = NoTorrent
    /\ new_name = None
    /\ success = FALSE
    /\ replaced_any = FALSE
    /\ new_any = FALSE
    /\ \E present \in SUBSET (1..Len(completed_torrents)), libOld \in BOOLEAN :
          /\ \A h \in 1..Len(completed_torrents) :
                completed_torrents[h].state /= "stoppedUP" => h \in present
          /\ fs = InitFs(present, libOld)
    /\ deleted = {}
    /\ del = NoDelete
    /\ scans = <<>>
    /\ ws = NoSession
    /\ closedScans = <<>>
    /\ log = {}

\* get_qbittorrent_client() when the client answers `outcome`: the client,
\* False (APIConnectionError is caught, line 56), or LoginFailed raised
\* (as the docstring of lines 49-50 has it; either way no caller retries it)
get_qbittorrent_client(outcome) ==
    CASE outcome = "ok" -> "client"
      [] outcome = "conn" -> "False"
      [] outcome = "login" -> "LoginFailed"

\* completed_torrents[:MAX_TORRENTS_PER_RUN] when the cap is positive
ApplyCap(listing, cap) ==
    IF cap > 0
    THEN SubSeq(listing, 1, IF cap < Len(listing) THEN cap ELSE Len(listing))
    ELSE listing

\* lines 98-113: connect, list, apply the cap, clear the accumulators
Start ==
    /\ pc = "start"
    /\ \E outcome \in {"ok", "conn", "login"}, listed \in BOOLEAN :
          LET client == get_qbittorrent_client(outcome)
          IN IF client = "LoginFailed"
               THEN /\ pc' = "aborted" /\ log' = log \cup {"login_failed"}
                    /\ UNCHANGED completed_torrents
             ELSE IF client = "False"
               THEN /\ pc' = "aborted" /\ log' = log \cup {"unexpected"}
                    /\ UNCHANGED completed_torrents
             ELSE IF ~listed
               THEN /\ pc' = "aborted" /\ log' = log \cup {"api_connection"}
                    /\ UNCHANGED completed_torrents
             ELSE /\ pc' = "loop"
                  /\ completed_torrents' =
                        ApplyCap(completed_torrents, cfg.MAX_TORRENTS_PER_RUN)
                  /\ UNCHANGED log
    /\ replaced_any' = FALSE
    /\ new_any' = FALSE
    /\ UNCHANGED <<mv, nf, st, sw, cfg, torrent, new_name, success, fs, deleted, del, scans, ws,
                   closedScans>>

\* an orchestrator that accumulates the flags of failed moves too
AfterMove_AccumulatesFailures(m, t) ==
    /\ success' = m.success
    /\ fs' = m.fs
    /\ replaced_any' = (replaced_any \/ m.replaced)
    /\ new_any' = (new_any \/ m.new)
    /\ IF m.success /\ cfg.DELETE_AFTER_PROCESSING
         THEN /\ pc' = "delete"
              /\ del' = [hash |-> t.hash, attempt |-> 0, calls |-> 0,
                         result |-> "running", err |-> "none"]
              /\ UNCHANGED log
         ELSE /\ pc' = "loop"
              /\ log' = IF m.success THEN log ELSE log \cup {"move_failed"}
              /\ UNCHANGED del

\* an orchestrator that deletes the torrent whatever the move returned
AfterMove_IgnoresSuccess(m, t) ==
    /\ success' = m.success
    /\ fs' = m.fs
    /\ replaced_any' = (replaced_any \/ (m.success /\ m.replaced))
    /\ new_any' = (new_any \/ (m.success /\ m.new))
    /\ IF cfg.DELETE_AFTER_PROCESSING
         THEN /\ pc' = "delete"
              /\ del' = [hash |-> t.hash, attempt |-> 0, calls |-> 0,
                         result |-> "running", err |-> "none"]
              /\ UNCHANGED log
         ELSE /\ pc' = "loop"
              /\ log' = IF m.success THEN log ELSE log \cup {"move_failed"}
              /\ UNCHANGED del

\* lines 135-144: what torrent_manager does with the result of the move
\* (the accumulators, and whether delete_torrent is called)
AfterMove(m, t) ==
    /\ success' = m.success
    /\ fs' = m.fs
    /\ replaced_any' = (replaced_any \/ (m.success /\ m.replaced))
    /\ new_any' = (new_any \/ (m.success /\ m.new))
    /\ IF m.success /\ cfg.DELETE_AFTER_PROCESSING
         THEN /\ pc' = "delete"
              /\ del' = [hash |-> t.hash, attempt |-> 0, calls |-> 0,
                         result |-> "running", err |-> "none"]
              /\ UNCHANGED log
         ELSE /\ pc' = "loop"
              /\ log' = IF m.success THEN log ELSE log \cup {"move_failed"}
              /\ UNCHANGED del

\* lines 115-144: one iteration of the loop, up to the call of delete_torrent
Iterate ==
    /\ pc = "loop"
    /\ completed_torrents /= <<>>
    /\ LET t == Head(completed_torrents)
       IN /\ torrent' = t
          /\ completed_torrents' = Tail(completed_torrents)
          /\ IF t.state /= "stoppedUP"
               THEN UNCHANGED <<pc, new_name, success, replaced_any, new_any, fs, del, log>>
             ELSE \E readable \in BOOLEAN, env \in MoveEnv :
                LET r == new_folder(t.name, GOG_ALL_GAMES, readable)
                IN CASE r.kind = "none" ->
                          /\ new_name' = None
                          /\ log' = log \cup {"skip"}
                          /\ UNCHANGED <<pc, success, replaced_any, new_any, fs, del>>
                     [] r.kind = "raise" ->
                          /\ pc' = "aborted"
                          /\ log' = log \cup {"unexpected"}
                          /\ UNCHANGED <<new_name, success, replaced_any, new_any, fs, del>>
                     [] r.kind = "ok" ->
                          /\ new_name' = r.name
                          /\ AfterMove(move_torrent_folder(fs, t.content_path,
                                                           DestPath(r.name), env), t)
    /\ UNCHANGED <<mv, nf, st, sw, cfg, deleted, scans, ws, closedScans>>

\* lines 242-264: one attempt of delete_torrent(torrent.hash)
DeleteAttempt ==
    /\ pc = "delete"
    /\ del.result = "running"
    /\ \E outcome \in {"ok", "conn", "login"}, call \in {"ok", "conn", "login", "other"} :
          LET client == get_qbittorrent_client(outcome)
              failed(err) == /\ del' = [del EXCEPT !.result = "False", !.err = err]
                             /\ log' = log \cup {"delete_failed"}
                             /\ pc' = "loop"
                             /\ UNCHANGED deleted
          IN CASE client = "LoginFailed" -> failed("login")
               [] client = "False" -> failed("connect_conn")
               [] client = "client" /\ call = "ok" ->
                    /\ del' = [del EXCEPT !.result = "True", !.calls = @ + 1]
                    /\ deleted' = deleted \cup {del.hash}
                    /\ pc' = "loop"
                    /\ UNCHANGED log
               [] client = "client" /\ call = "login" ->
                    /\ del' = [del EXCEPT !.result = "False", !.err = "login",
                                          !.calls = @ + 1]
                    /\ log' = log \cup {"delete_failed"}
                    /\ pc' = "loop"
                    /\ UNCHANGED deleted
               [] client = "client" /\ call = "other" ->
                    /\ del' = [del EXCEPT !.result = "False", !.err = "other",
                                          !.calls = @ + 1]
                    /\ log' = log \cup {"delete_failed"}
                    /\ pc' = "loop"
                    /\ UNCHANGED deleted
               [] client = "client" /\ call = "conn" ->
                    IF del.attempt < MAX_RETRIES - 1
                    THEN /\ del' = [del EXCEPT !.attempt = @ + 1, !.err = "delete_conn",
                                               !.calls = @ + 1]
                         /\ UNCHANGED <<pc, log, deleted>>
                    ELSE /\ del' = [del EXCEPT !.result = "False", !.err = "delete_conn",
                                               !.calls = @ + 1]
                         /\ log' = log \cup {"delete_failed"}
                         /\ pc' = "loop"
                         /\ UNCHANGED deleted
    /\ UNCHANGED <<mv, nf, st, sw, cfg, completed_torrents, torrent, new_name, success, replaced_any,
                   new_any, fs, scans, ws, closedScans>>

\* the loop of line 115 is exhausted: control reaches line 146
EndLoop ==
    /\ pc = "loop"
    /\ completed_torrents = <<>>
    /\ pc' = "line146"
    /\ UNCHANGED <<mv, nf, st, sw, cfg, completed_torrents, torrent, new_name, success, replaced_any,
                   new_any, fs, deleted, del, scans, ws, closedScans, log>>

Next == Start \/ Iterate \/ DeleteAttempt \/ EndLoop

Spec == Init /\ [][Next]_vars

(***************************************************************************)
(* The post-import stage (torrent_manager, lines 146-161, with             *)
(* scan_after_import and scan_file_changes) and the Remote Scan Session    *)
(* (RommAPI.scan_library).  The stage starts where the loop of the cycle   *)
(* ends, at line 146, with the accumulators the loop can leave.            *)
(***************************************************************************)
\* frames are sequences of characters; a quoted event name is three of them
Ping == <<"2">>

Pong == <<"3">>

OpenAck == <<"4", "0">>

\* the literal '"scan:done"'
SCAN_DONE == <<"\"", "scan:done", "\"">>

\* the literal '"scan:stop"'
SCAN_STOP == <<"\"", "scan:stop", "\"">>

\* the frames the server may send while the scan runs
Frames ==
    { Ping,
      <<"4", "2", "[">> \o SCAN_DONE \o <<",", "{", "}", "]">>,
      <<"4", "2", "[">> \o SCAN_STOP \o <<"]">>,
      <<"4", "2", "[", "\"", "scan:scanning_rom", "\"", "]">> }

\* how far the clock may move while one ws.recv() blocks (seconds)
Deltas == {0, timeout \div 2, (timeout \div 2) + 1}

\* time.time() - start_time after a further d seconds; every value above the
\* ceiling behaves alike, so the clock stops at the first of them
Later(elapsed, d) == IF elapsed + d > timeout THEN timeout + 1 ELSE elapsed + d

\* lines 252-255: the apis of the scan command
DefaultApis(scan_type, apis) ==
    IF apis = None /\ scan_type /= "hashes" THEN <<"sgdb", "igdb", "hltb">>
    ELSE IF apis = None THEN <<>>
    ELSE apis

\* scan_library(platforms, scan_type, apis) entered: nothing connected yet
NewSession(scan_type, apis) ==
    [NoSession EXCEPT !.state = "connect", !.scan_type = scan_type,
                      !.apis = DefaultApis(scan_type, apis)]

\* the loop of the cycle has ended with these accumulators
InitScan ==
    /\ mv = NoMove
    /\ nf = NoMatch
    /\ st = NoStrip
    /\ sw = NoSweep
    /\ pc = "line146"
    /\ cfg \in [MAX_TORRENTS_PER_RUN : {0}, DELETE_AFTER_PROCESSING : {FALSE},
                ROMM_ENABLE : BOOLEAN, ROMM_SCAN_AFTER_IMPORT : BOOLEAN]
    /\ completed_torrents = <<>>
    /\ torrent = NoTorrent
    /\ new_name = None
    /\ success = FALSE
    /\ \E acc \in {<<FALSE, FALSE>>, <<TRUE, FALSE>>, <<TRUE, TRUE>>} :
          /\ new_any = acc[1]
          /\ replaced_any = acc[2]
    /\ fs = <<>>
    /\ deleted = {}
    /\ del = NoDelete
    /\ scans = <<>>
    /\ ws = NoSession
    /\ closedScans = <<>>
    /\ log = {}

sessionFrame == <<mv, nf, st, sw, cfg, completed_torrents, torrent, new_name, success, replaced_any,
                  new_any, fs, deleted, del>>

\* lines 147-155: the gate of the stage and the sweeps before the scans
\* (remove_extras and find_dangerous_filetypes touch none of the state below
\* and are taken to return normally; they leave the log record "sweeps")
PostImport ==
    /\ pc = "line146"
    /\ IF cfg.ROMM_ENABLE /\ cfg.ROMM_SCAN_AFTER_IMPORT
         THEN /\ pc' = "line156"
              /\ log' = IF replaced_any \/ new_any THEN log \cup {"sweeps"} ELSE log
         ELSE /\ pc' = "done"
              /\ UNCHANGED log
    /\ UNCHANGED <<sessionFrame, scans, ws, closedScans>>

\* the body of scan_after_import / scan_file_changes up to the call of
\* scan_library: the platform id is resolved (0 stands for None)
Trigger(scan_type, apis, running, skip) ==
    /\ scans' = Append(scans, scan_type)
    /\ \E platform_id \in {0, 1} :
          IF platform_id /= 0
          THEN /\ ws' = NewSession(scan_type, apis)
               /\ pc' = running
          ELSE /\ pc' = skip
               /\ UNCHANGED ws

\* a post-import stage that starts the quick scan and goes on to line 159
\* without waiting for scan_library to return
ScanAfterImport_NoWait ==
    /\ pc = "line156"
    /\ IF new_any
         THEN Trigger("quick", <<"sgdb", "igdb", "hltb">>, "line159", "line159")
         ELSE /\ pc' = "line159"
              /\ UNCHANGED <<scans, ws>>
    /\ UNCHANGED <<sessionFrame, closedScans, log>>

\* lines 156-158 and 34-43
ScanAfterImport ==
    /\ pc = "line156"
    /\ IF new_any
         THEN Trigger("quick", <<"sgdb", "igdb", "hltb">>, "scan_after_import", "line159")
         ELSE /\ pc' = "line159"
              /\ UNCHANGED <<scans, ws>>
    /\ UNCHANGED <<sessionFrame, closedScans, log>>

\* a post-import stage that takes the second trigger as the alternative of the
\* first (elif for if)
ScanFileChanges_Elif ==
    /\ pc = "line159"
    /\ IF replaced_any /\ ~new_any
         THEN Trigger("hashes", None, "scan_file_changes", "done")
         ELSE /\ pc' = "done"
              /\ UNCHANGED <<scans, ws>>
    /\ UNCHANGED <<sessionFrame, closedScans, log>>

\* lines 159-161 and 46-55
ScanFileChanges ==
    /\ pc = "line159"
    /\ IF replaced_any
         THEN Trigger("hashes", None, "scan_file_changes", "done")
         ELSE /\ pc' = "done"
              /\ UNCHANGED <<scans, ws>>
    /\ UNCHANGED <<sessionFrame, closedScans, log>>

\* the except clause of line 319: scan_library returns False; nothing closes ws
Failed(terminal) ==
    [ws EXCEPT !.state = "returned", !.terminal = terminal, !.returned = "False"]

\* line 272: websocket.create_connection
Connect ==
    /\ ws.state = "connect"
    /\ \E ok \in BOOLEAN :
          ws' = IF ok THEN [ws EXCEPT !.state = "recv_initial", !.open = TRUE]
                ELSE Failed("ConnectFailed")
    /\ UNCHANGED <<sessionFrame, pc, scans, closedScans, log>>

\* line 273: receive the server's initial frame
RecvInitial ==
    /\ ws.state = "recv_initial"
    /\ \E ok \in BOOLEAN :
          ws' = IF ok THEN [ws EXCEPT !.state = "send_ack", !.io = Append(@, "recv_initial")]
                ELSE Failed("HandshakeFailed")
    /\ UNCHANGED <<sessionFrame, pc, scans, closedScans, log>>

\* line 276: ws.send("40")
SendAck ==
    /\ ws.state = "send_ack"
    /\ \E ok \in BOOLEAN :
          ws' = IF ok THEN [ws EXCEPT !.state = "recv_confirm", !.io = Append(@, "send_40")]
                ELSE Failed("HandshakeFailed")
    /\ UNCHANGED <<sessionFrame, pc, scans, closedScans, log>>

\* a handshake that does not wait for the confirmation frame
RecvConfirm_NotAwaited ==
    /\ ws.state = "recv_confirm"
    /\ ws' = [ws EXCEPT !.state = "send_scan"]
    /\ UNCHANGED <<sessionFrame, pc, scans, closedScans, log>>

\* line 277: receive the confirmation frame
RecvConfirm ==
    /\ ws.state = "recv_confirm"
    /\ \E ok \in BOOLEAN :
          ws' = IF ok THEN [ws EXCEPT !.state = "send_scan", !.io = Append(@, "recv_confirm")]
                ELSE Failed("HandshakeFailed")
    /\ UNCHANGED <<sessionFrame, pc, scans, closedScans, log>>

\* lines 282-285: send the scan command, take start_time
SendScan ==
    /\ ws.state = "send_scan"
    /\ \E ok \in BOOLEAN :
          ws' = IF ok THEN [ws EXCEPT !.state = "awaiting", !.io = Append(@, "send_scan"),
                                      !.elapsed = 0]
                ELSE Failed("HandshakeFailed")
    /\ UNCHANGED <<sessionFrame, pc, scans, closedScans, log>>

\* the loop is left by break: control goes to ws.close() at line 317
Break(terminal, by) ==
    [ws EXCEPT !.state = "closing", !.terminal = terminal, !.by = by]

\* a loop that does not know the stop event
OnFrame_IgnoresStop(session, frame) ==
    IF Contains(frame, SCAN_DONE)
      THEN [session EXCEPT !.state = "closing", !.terminal = "Done", !.by = "frame"]
    ELSE IF frame = Ping
      THEN [session EXCEPT !.state = "send_pong"]
    ELSE session

\* a loop that answers every frame that ends nothing
OnFrame_PongsAll(session, frame) ==
    IF Contains(frame, SCAN_DONE)
      THEN [session EXCEPT !.state = "closing", !.terminal = "Done", !.by = "frame"]
    ELSE IF Contains(frame, SCAN_STOP)
      THEN [session EXCEPT !.state = "closing", !.terminal = "Stopped", !.by = "frame"]
    ELSE [session EXCEPT !.state = "send_pong"]

\* lines 297-308: what the loop does with a received frame
OnFrame(session, frame) ==
    IF Contains(frame, SCAN_DONE)
      THEN [session EXCEPT !.state = "closing", !.terminal = "Done", !.by = "frame"]
    ELSE IF Contains(frame, SCAN_STOP)
      THEN [session EXCEPT !.state = "closing", !.terminal = "Stopped", !.by = "frame"]
    ELSE IF frame = Ping
      THEN [session EXCEPT !.state = "send_pong"]
    ELSE session

\* a loop without a ceiling
CeilingReached_Never(elapsed) == FALSE

\* line 288: time.time() - start_time > timeout
CeilingReached(elapsed) == elapsed > timeout

\* lines 286-315: one turn of the loop, up to the handling of what ws.recv() gave;
\* pongs counts the ws.send("3") that went out since this ws.recv() was called
Await ==
    /\ ws.state = "awaiting"
    /\ IF CeilingReached(ws.elapsed)
         THEN /\ ws' = Break("TimedOut", "ceiling")
              /\ log' = log \cup {"scan_timeout"}
         ELSE \E d \in Deltas, got \in Frames \cup {<<"read_timeout">>, <<"error">>} :
                 LET now == [ws EXCEPT !.elapsed = Later(ws.elapsed, d), !.pongs = 0]
                 IN CASE got = <<"read_timeout">> ->
                           /\ ws' = [now EXCEPT !.state = "closing", !.terminal = "TimedOut",
                                                !.by = "read_timeout"]
                           /\ log' = log \cup {"ws_read_timeout"}
                      [] got = <<"error">> ->
                           /\ ws' = [now EXCEPT !.state = "closing", !.terminal = "Errored",
                                                !.by = "recv_error"]
                           /\ log' = log \cup {"ws_error"}
                      [] OTHER ->
                           /\ ws' = OnFrame([now EXCEPT !.result = got,
                                                        !.pingsOnly = @ /\ got = Ping], got)
                           /\ UNCHANGED log
    /\ UNCHANGED <<sessionFrame, pc, scans, closedScans>>

\* line 307: ws.send("3"); a failure is caught at line 313
SendPong ==
    /\ ws.state = "send_pong"
    /\ \E ok \in BOOLEAN :
          IF ok THEN /\ ws' = [ws EXCEPT !.state = "awaiting", !.pongs = @ + 1]
                     /\ UNCHANGED log
          ELSE /\ ws' = Break("Errored", "send_error")
               /\ log' = log \cup {"ws_error"}
    /\ UNCHANGED <<sessionFrame, pc, scans, closedScans>>

\* what scan_library returns after the loop
scan_library_return(session) == "True"

\* lines 317-318: ws.close() and the return
Close ==
    /\ ws.state = "closing"
    /\ ws' = [ws EXCEPT !.state = "returned", !.open = FALSE,
                        !.returned = scan_library_return(ws)]
    /\ UNCHANGED <<sessionFrame, pc, scans, closedScans, log>>

\* scan_library has returned to scan_after_import / scan_file_changes, and that
\* to torrent_manager
ScanReturns ==
    /\ pc \in {"scan_after_import", "scan_file_changes"}
    /\ ws.state = "returned"
    /\ closedScans' = Append(closedScans,
                             [scan_type |-> ws.scan_type, terminal |-> ws.terminal,
                              returned |-> ws.returned, open |-> ws.open])
    /\ ws' = NoSession
    /\ pc' = IF pc = "scan_after_import" THEN "line159" ELSE "done"
    /\ UNCHANGED <<sessionFrame, scans, log>>

NextScan ==
    \/ PostImport \/ ScanAfterImport \/ ScanFileChanges
    \/ Connect \/ RecvInitial \/ SendAck \/ RecvConfirm \/ SendScan
    \/ Await \/ SendPong \/ Close \/ ScanReturns

SpecScan == InitScan /\ [][NextScan]_vars

\* a turn of the loop whose ws.recv() took time: time.time() - start_time has grown
AwaitTick == Await /\ ws'.elapsed > ws.elapsed

\* the post-import stage run by a thread that always takes its next step: every
\* call returns (a frame, a read timeout or an error for ws.recv()), and the
\* clock does not stand still for ever while the loop keeps receiving
SpecScanFair ==
    InitScan /\ [][NextScan]_vars /\ WF_vars(NextScan) /\ SF_vars(AwaitTick)

(***************************************************************************)
(* Maintenance Sweeps: romm_library_cleanup.run with find_empty,           *)
(* find_fragmented, find_missing_exe and find_dangerous_filetypes, against *)
(* a server that holds an inventory of game records                        *)
(*   [id, platform_id, fs_size_bytes, files]                               *)
(* Platform id 1 is the platform of ROMM_PLATFORM_SLUG, 2 another one, and *)
(* 0 stands for None (no platform filter).                                 *)
(***************************************************************************)
\* Python: s.endswith(suffix)
EndsWith(s, suffix) ==
    Len(s) >= Len(suffix) /\ SubSeq(s, Len(s) - Len(suffix) + 1, Len(s)) = suffix

\* the literal '.exe'
EXE == <<".", "e", "x", "e">>

\* the tuple of line 249-251
DANGEROUS_EXTENSIONS ==
    { <<".", "b", "a", "t">>,
      <<".", "c", "m", "d">>,
      <<".", "u", "r", "l">>,
      <<".", "m", "3", "u">>,
      <<".", "p", "d", "f">>,
      <<".", "j", "s">>,
      <<".", "i", "s", "o">>,
      <<".", "i", "c", "s">>,
      <<".", "m", "s", "i">>,
      <<".", "m", "s", "i", "x">>,
      <<".", "m", "s", "u">>,
      <<".", "o", "n", "e">>,
      <<".", "c", "p", "l">>,
      <<".", "c", "a", "b">>,
      <<".", "g", "a", "d", "g", "e", "t">>,
      <<".", "i", "q", "y">>,
      <<".", "m", "s", "p">>,
      <<".", "a", "p", "p", "x">>,
      <<".", "j", "s", "e">>,
      <<".", "s", "c", "r">>,
      <<".", "r", "e", "g">>,
      <<".", "w", "s">>,
      <<".", "w", "s", "e">>,
      <<".", "w", "s", "f">> }

\* file names on the server
GameExe == <<"g">> \o EXE

ScriptBat == <<"r", ".", "b", "a", "t">>

\* what a game record of the server can be
GameKinds ==
    { [platform_id |-> 1, fs_size_bytes |-> 0, files |-> <<>>],
      [platform_id |-> 1, fs_size_bytes |-> FRAGMENTED_MAX_BYTES, files |-> <<GameExe>>],
      [platform_id |-> 1, fs_size_bytes |-> FRAGMENTED_MAX_BYTES + 1,
       files |-> <<GameExe, ScriptBat>>],
      [platform_id |-> 2, fs_size_bytes |-> 0, files |-> <<GameExe>>],
      [platform_id |-> 2, fs_size_bytes |-> FRAGMENTED_MAX_BYTES + 1, files |-> <<ScriptBat>>] }

\* the inventories of at most MaxGames records, with ids 1, 2, ...
Inventories ==
    UNION { { [i \in 1..n |-> [id |-> i, platform_id |-> k[i].platform_id,
                               fs_size_bytes |-> k[i].fs_size_bytes,
                               files |-> k[i].files]] :
                k \in [1..n -> GameKinds] } : n \in 0..MaxGames }

\* what the server answers within one sweep: get_platform_by_slug() (the id,
\* or 0 for None), filter_games() (data, or None on any request failure) and
\* delete_games() (a response, or None)
SweepEnv == [platform : {0, 1}, fetch : BOOLEAN, delete : BOOLEAN]

\* RommAPI.filter_games(platform_id=...) answered by the server
filter_games(games, platform_id) ==
    SelectSeq(games, LAMBDA g : platform_id = 0 \/ g.platform_id = platform_id)

\* RommAPI.delete_games(game_ids) answered by the server: the records are
\* gone, or the request failed and nothing changed
delete_games(games, game_ids, ok) ==
    IF ok THEN SelectSeq(games, LAMBDA g : g.id \notin game_ids) ELSE games

\* a record of the log: which function wrote it, and what it says
Logged(s, by, what) == [s EXCEPT !.log = @ \cup {[by |-> by, what |-> what]}]

\* a request to the server: which function made it, which, and with what
Called(s, by, op, platform_id, items, ids) ==
    [s EXCEPT !.calls = Append(@, [by |-> by, op |-> op, platform_id |-> platform_id,
                                   items |-> items, ids |-> ids])]

\* the items of a fetched inventory
Items(items) == { items[i] : i \in DOMAIN items }

\* game_ids: the ids of the items a sweep picked
Selected(picked) == { item.id : item \in picked }

\* lines 70-75 (and 122-127, 171-176, 227-232): the inventory request
Fetched(s, by, platform_id, env) ==
    IF env.fetch
    THEN Called(s, by, "filter", platform_id, filter_games(s.games, platform_id), {})
    ELSE Logged(Called(s, by, "filter_failed", platform_id, <<>>, {}), by, "fetch_failed")

\* lines 95-99 (and 148-150, 202-204): the delete request for the selected ids
Deleted(s, by, game_ids, env) ==
    LET asked == Called(s, by, IF env.delete THEN "delete" ELSE "delete_failed", 0, <<>>,
                        game_ids)
    IN [asked EXCEPT !.games = delete_games(@, game_ids, env.delete)]

\* find_empty(), lines 57-103
find_empty(s, env) ==
    LET by == "find_empty"
        scoped == s.cfg.ROMM_EMPTY_DIRS_LIBRARY_SPECIFIC
        platform_id == IF scoped THEN env.platform ELSE 0
        started == Logged(s, by, "started")
        warned == IF scoped /\ platform_id = 0
                  THEN Logged(started, by, "platform_unresolved")
                  ELSE started
        got == Fetched(warned, by, platform_id, env)
        items == filter_games(s.games, platform_id)
        game_ids == Selected({ item \in Items(items) : item.fs_size_bytes = 0 })
        gone == Deleted(Logged(got, by, "found"), by, game_ids, env)
    IN IF ~env.fetch THEN got
       ELSE IF items = <<>> THEN Logged(got, by, "nothing_to_check")
       ELSE IF game_ids = {} THEN Logged(got, by, "none_found")
       ELSE IF env.delete THEN gone
       ELSE Logged(gone, by, "delete_failed")

\* a fragmented sweep whose threshold is exclusive
find_fragmented_Exclusive(s, env) ==
    LET by == "find_fragmented"
        scoped == s.cfg.ROMM_EMPTY_DIRS_LIBRARY_SPECIFIC
        platform_id == IF scoped THEN env.platform ELSE 0
        started == Logged(s, by, "started")
        warned == IF scoped /\ platform_id = 0
                  THEN Logged(started, by, "platform_unresolved")
                  ELSE started
        got == Fetched(warned, by, platform_id, env)
        items == filter_games(s.games, platform_id)
        game_ids == Selected({ item \in Items(items) :
                                  item.fs_size_bytes < FRAGMENTED_MAX_BYTES })
    IN IF ~env.fetch THEN got
       ELSE IF items = <<>> THEN Logged(got, by, "nothing_to_check")
       ELSE IF game_ids = {} THEN Logged(got, by, "none_found")
       ELSE Deleted(Logged(got, by, "found"), by, game_ids, env)

\* find_fragmented(), lines 106-154
find_fragmented(s, env) ==
    LET by == "find_fragmented"
        scoped == s.cfg.ROMM_EMPTY_DIRS_LIBRARY_SPECIFIC
        platform_id == IF scoped THEN env.platform ELSE 0
        started == Logged(s, by, "started")
        warned == IF scoped /\ platform_id = 0
                  THEN Logged(started, by, "platform_unresolved")
                  ELSE started
        got == Fetched(warned, by, platform_id, env)
        items == filter_games(s.games, platform_id)
        game_ids == Selected({ item \in Items(items) :
                                  item.fs_size_bytes <= FRAGMENTED_MAX_BYTES })
    IN IF ~env.fetch THEN got
       ELSE IF items = <<>> THEN Logged(got, by, "nothing_to_check")
       ELSE IF game_ids = {} THEN Logged(got, by, "none_found")
       ELSE Deleted(Logged(got, by, "found"), by, game_ids, env)

\* find_missing_exe(), lines 157-208
find_missing_exe(s, env) ==
    LET by == "find_missing_exe"
        platform_id == env.platform
        started == Logged(s, by, "started")
        got == Fetched(started, by, platform_id, env)
        items == filter_games(s.games, platform_id)
        game_ids == Selected({ item \in Items(items) :
                        ~\E f \in DOMAIN item.files : EndsWith(item.files[f], EXE) })
    IN IF platform_id = 0 THEN Logged(started, by, "platform_unresolved")
       ELSE IF ~env.fetch THEN got
       ELSE IF items = <<>> THEN Logged(got, by, "nothing_to_check")
       ELSE IF game_ids = {} THEN Logged(got, by, "none_found")
       ELSE Deleted(Logged(got, by, "found"), by, game_ids, env)

\* a dangerous-filetype sweep that deletes what it finds, as the others do
find_dangerous_filetypes_Deletes(s, env) ==
    LET by == "find_dangerous_filetypes"
        platform_id == env.platform
        started == Logged(s, by, "started")
        got == Fetched(started, by, platform_id, env)
        items == filter_games(s.games, platform_id)
        game_ids == Selected({ item \in Items(items) :
                        \E f \in DOMAIN item.files, e \in DANGEROUS_EXTENSIONS :
                            EndsWith(item.files[f], e) })
    IN IF platform_id = 0 THEN Logged(started, by, "platform_unresolved")
       ELSE IF ~env.fetch THEN got
       ELSE IF items = <<>> THEN Logged(got, by, "nothing_to_check")
       ELSE IF game_ids = {} THEN Logged(got, by, "none_found")
       ELSE Deleted(Logged(got, by, "found"), by, game_ids, env)

\* find_dangerous_filetypes(), lines 211-261
find_dangerous_filetypes(s, env) ==
    LET by == "find_dangerous_filetypes"
        platform_id == env.platform
        started == Logged(s, by, "started")
        got == Fetched(started, by, platform_id, env)
        items == filter_games(s.games, platform_id)
        game_ids == Selected({ item \in Items(items) :
                        \E f \in DOMAIN item.files, e \in DANGEROUS_EXTENSIONS :
                            EndsWith(item.files[f], e) })
    IN IF platform_id = 0 THEN Logged(started, by, "platform_unresolved")
       ELSE IF ~env.fetch THEN got
       ELSE IF items = <<>> THEN Logged(got, by, "nothing_to_check")
       ELSE IF game_ids = {} THEN Logged(got, by, "none_found")
       ELSE Logged(got, by, "found")

\* the state at the call of run(): the configuration and the server's inventory
InitSweep ==
    /\ mv = NoMove
    /\ nf = NoMatch
    /\ st = NoStrip
    /\ sw \in [pc : {"line16"},
               cfg : [ROMM_ENABLE : BOOLEAN, ROMM_EMPTY_DIRS : BOOLEAN,
                      ROMM_EMPTY_DIRS_LIBRARY_SPECIFIC : BOOLEAN,
                      ROMM_MISSING_EXE : BOOLEAN,
                      ROMM_SCAN_DANGEROUS_FILETYPES : BOOLEAN],
               games : Inventories, calls : {<<>>}, log : {{}}]
    /\ CycleOff

\* lines 16-17 and 30-31: the gate of run()
RunGate ==
    /\ sw.pc = "line16"
    /\ sw' = IF sw.cfg.ROMM_ENABLE
             THEN [Logged(sw, "run", "started") EXCEPT !.pc = "line19"]
             ELSE [Logged(sw, "run", "disabled") EXCEPT !.pc = "done"]
    /\ UNCHANGED <<mv, nf, st>>
    /\ UNCHANGED cycleVars

\* lines 19-20
FindEmpty ==
    /\ sw.pc = "line19"
    /\ IF sw.cfg.ROMM_EMPTY_DIRS
         THEN \E env \in SweepEnv : sw' = [find_empty(sw, env) EXCEPT !.pc = "line21"]
         ELSE sw' = [sw EXCEPT !.pc = "line22"]
    /\ UNCHANGED <<mv, nf, st>>
    /\ UNCHANGED cycleVars

\* line 21
FindFragmented ==
    /\ sw.pc = "line21"
    /\ \E env \in SweepEnv : sw' = [find_fragmented(sw, env) EXCEPT !.pc = "line22"]
    /\ UNCHANGED <<mv, nf, st>>
    /\ UNCHANGED cycleVars

\* lines 22-23
FindMissingExe ==
    /\ sw.pc = "line22"
    /\ IF sw.cfg.ROMM_MISSING_EXE
         THEN \E env \in SweepEnv : sw' = [find_missing_exe(sw, env) EXCEPT !.pc = "line24"]
         ELSE sw' = [sw EXCEPT !.pc = "line24"]
    /\ UNCHANGED <<mv, nf, st>>
    /\ UNCHANGED cycleVars

\* lines 24-27
FindDangerousFiletypes ==
    /\ sw.pc = "line24"
    /\ LET completed(s) == [Logged(s, "run", "completed") EXCEPT !.pc = "done"]
       IN IF sw.cfg.ROMM_SCAN_DANGEROUS_FILETYPES
            THEN \E env \in SweepEnv : sw' = completed(find_dangerous_filetypes(sw, env))
            ELSE sw' = completed(sw)
    /\ UNCHANGED <<mv, nf, st>>
    /\ UNCHANGED cycleVars

NextSweep == RunGate \/ FindEmpty \/ FindFragmented \/ FindMissingExe \/ FindDangerousFiletypes

SpecSweep == InitSweep /\ [][NextSweep]_vars

(***************************************************************************)
(* Properties.                                                             *)
(***************************************************************************)
\* the call of the relocator has returned and its source was a directory
MoveReturnedFromDir == mv.phase = "returned" /\ IsDir(mv.fs, mv.source)

\* the filesystem after the call holds the source's tree at the destination
\* and nothing at the source
Moved == /\ mv.out.fs[mv.destination] = mv.fs[mv.source]
         /\ mv.out.fs[mv.source] = Absent

\* C5: with an existing source directory, move_torrent_folder returns success
\* exactly when the move happened (by rename or by the copy fallback): the
\* destination then holds the source's content, the source no longer exists,
\* and the triple is (true, true, true) when the destination pre-existed and
\* (true, false, true) when it was absent.
C5_RelocateSuccess ==
    MoveReturnedFromDir =>
        /\ mv.out.success <=> Moved
        /\ mv.out.success =>
              /\ mv.out.new
              /\ mv.out.replaced <=> Exists(mv.fs, mv.destination)

\* a pre-existing destination was replaced through the copy fallback
C5_Witness ==
    /\ MoveReturnedFromDir
    /\ Exists(mv.fs, mv.destination)
    /\ mv.out.success /\ mv.out.replaced /\ mv.out.new
    /\ mv.out.ops = <<"rmtree", "rename", "move">>

\* C6: when the source does not exist or is not a directory,
\* move_torrent_folder returns (false, false, false), makes no mutating call
\* (no rmtree, rename or move) and leaves the filesystem as it was.
C6_SourcePrecondition ==
    (mv.phase = "returned" /\ ~IsDir(mv.fs, mv.source)) =>
        /\ ~mv.out.success /\ ~mv.out.replaced /\ ~mv.out.new
        /\ mv.out.ops = <<>>
        /\ mv.out.fs = mv.fs

\* the source is a regular file and the destination is an existing directory
C6_Witness ==
    /\ mv.phase = "returned"
    /\ mv.fs[mv.source].kind = "file"
    /\ mv.source /= mv.destination
    /\ mv.fs[mv.destination].kind = "dir"
    /\ mv.out.fs[mv.destination].kind = "dir"

\* C1: scan_library returns True only when a completion or stop frame was
\* received; a session ended by a read timeout, by another receive error or by
\* the ceiling (TimedOut, Errored) returns False.
C1_ReturnsFalseUnlessCompleted ==
    ws.state = "returned" =>
        (ws.returned = "True" <=> ws.terminal \in {"Done", "Stopped"})

\* C2: a session that received nothing but pings until the ceiling was found
\* exceeded ends in TimedOut, has logged the timeout, and returns False.
C2_PingsUntilCeiling ==
    (ws.state = "returned" /\ ws.pingsOnly /\ ws.by = "ceiling") =>
        /\ ws.terminal = "TimedOut"
        /\ "scan_timeout" \in log
        /\ ws.returned = "False"

\* C3: scan_library never returns with the websocket still open.
C3_ClosedOnEveryExit ==
    /\ ws.state = "returned" => ~ws.open
    /\ \A i \in 1..Len(closedScans) : ~closedScans[i].open

\* the torrent client is asked to delete, or loses a torrent, in this step
DeleteIssued == del'.calls = del.calls + 1 \/ deleted' /= deleted

\* the current torrent is Stopped, was named by the matcher, was moved into the
\* library by the relocator in this iteration, and deletion is enabled
DeleteAllowed ==
    /\ pc = "delete"
    /\ torrent.state = "stoppedUP"
    /\ del.hash = torrent.hash
    /\ new_name /= None
    /\ success
    /\ cfg.DELETE_AFTER_PROCESSING
    /\ fs[DestPath(new_name)] = Dir(HashLeaf[torrent.hash])
    /\ fs[torrent.content_path] = Absent

\* C4: the client's delete is called for a torrent only if the torrent is
\* Stopped, the matcher returned a name, move_torrent_folder returned success
\* for it in this cycle and delete-after-processing is enabled; no other
\* torrent is ever deleted.
C4_DeleteOnlyAfterRelocation ==
    [][DeleteIssued => (DeleteAllowed /\ deleted' \subseteq deleted \cup {torrent.hash})]_vars

\* one torrent was deleted after its move while the move of another failed
C4_Witness ==
    /\ pc = "line146"
    /\ deleted /= {}
    /\ "move_failed" \in log
    /\ \E h \in 1..MaxTorrents : h \notin deleted /\ fs[SrcPath(h)] /= Absent

\* C7: delete_torrent makes at most MAX_RETRIES attempts, and a deletion that
\* ends in failure on a connection error (met while connecting or while
\* deleting) has made all of them.
C7_RetriesOnConnectionError ==
    /\ del.attempt < MAX_RETRIES
    /\ (del.result = "False" /\ del.err \in {"connect_conn", "delete_conn"}) =>
          del.attempt = MAX_RETRIES - 1

\* the triggers the post-import stage owes to the accumulators
ExpectedScans ==
    IF cfg.ROMM_ENABLE /\ cfg.ROMM_SCAN_AFTER_IMPORT
    THEN (IF new_any THEN <<"quick">> ELSE <<>>)
         \o (IF replaced_any THEN <<"hashes">> ELSE <<>>)
    ELSE <<>>

\* the scan types in a sequence of triggers or of closed sessions
Types(seq) == { seq[i] : i \in 1..Len(seq) }

C9_FailureDoesNotAbort ==
    (pc \in {"line146", "aborted"}
        /\ log \cap {"skip", "move_failed", "delete_failed"} /= {}) =>
        (pc = "line146" /\ completed_torrents = <<>>)

\* C10: a torrent whose matching catalog record has no title is skipped with a
\* log record, and the cycle goes on.
C10_MissingTitleIsContained ==
    (torrent.state = "stoppedUP" /\ MatchedName(torrent.name, GOG_ALL_GAMES) = None) =>
        pc /= "aborted"

\* new_folder has returned from a call with a name and a readable catalog
MatchReturned == nf.phase = "returned" /\ nf.readable /\ nf.stem \o nf.suffix /= <<>>

\* record i of the catalog has the working name as its slug
IsExact(i) == nf.data[i].slug = nf.stem

NoExact == \A i \in DOMAIN nf.data : ~IsExact(i)

\* record i has a slug that contains the working name and is at most
\* PARTIAL_SLACK characters longer
Qualifies(i) ==
    LET slug == nf.data[i].slug
    IN /\ slug /= None
       /\ slug /= <<>>
       /\ Contains(slug, nf.stem)
       /\ Len(slug) - Len(nf.stem) <= PARTIAL_SLACK

\* record i comes first among the qualifying ones by slug length, then by
\* position in the file
Best(i) ==
    /\ Qualifies(i)
    /\ \A j \in DOMAIN nf.data :
          Qualifies(j) =>
             \/ Len(nf.data[i].slug) < Len(nf.data[j].slug)
             \/ Len(nf.data[i].slug) = Len(nf.data[j].slug) /\ i <= j

\* the name returned is `title` after the steps of lines 341-355; a record
\* without a title yields no name at all (C10)
Adopted(title) ==
    IF title = None THEN nf.out.kind = "raise"
    ELSE nf.out = [kind |-> "ok", name |-> CleanName(title, nf.stem \o nf.suffix)]

\* C11: if the working name (the raw name cut at the first '_windows_gog_')
\* equals the slug of some record, the result comes from the title of the
\* first such record in file order, whatever records qualify as partial
\* matches and wherever they stand.
C11_ExactMatchWins ==
    MatchReturned =>
        \A i \in DOMAIN nf.data :
            (IsExact(i) /\ \A j \in 1..(i - 1) : ~IsExact(j)) => Adopted(nf.data[i].title)

\* a partial candidate stands before the exact record, and a second exact
\* record after it; the first exact record's title is returned
C11_Witness ==
    /\ MatchReturned
    /\ Len(nf.data) = 3
    /\ Qualifies(1) /\ ~IsExact(1) /\ nf.data[1].title = <<"C">>
    /\ IsExact(2) /\ nf.data[2].title = <<" ", "B", "(r)">>
    /\ IsExact(3) /\ nf.data[3].title = <<"A">>
    /\ nf.out = [kind |-> "ok", name |-> <<"B">>]

NoMatchAtAll == MatchReturned /\ NoExact /\ \A i \in DOMAIN nf.data : ~Qualifies(i)

\* C13 as stated: when no record matches exactly or partially, the name
\* returned is the working name with the glyphs removed and trimmed.
C13_NoMatchReturnsWorkingName ==
    NoMatchAtAll => nf.out = [kind |-> "ok", name |-> StripStep(nf.stem)]

\* C13, amended: when no record matches exactly or partially, the name
\* returned is the working name with the glyphs removed and trimmed, unless
\* that is empty: then it is the raw name, untouched (platform suffix included).
C13_NoMatchFallback ==
    NoMatchAtAll =>
        nf.out = [kind |-> "ok",
                  name |-> IF StripStep(nf.stem) = <<>> THEN nf.stem \o nf.suffix
                           ELSE StripStep(nf.stem)]

\* 'a_b' cut from 'a_b_windows_gog_1' against a catalog holding slug 'a-b'
C13_Witness ==
    /\ NoMatchAtAll
    /\ nf.stem = <<"a", "_", "b">>
    /\ nf.suffix /= <<>>
    /\ \E i \in DOMAIN nf.data : nf.data[i].slug = <<"a", "-", "b">>
    /\ nf.out = [kind |-> "ok", name |-> <<"a", "_", "b">>]

\* C14: the stripping step (remove the three glyphs, then trim) gives the
\* same result applied twice as applied once.
C14_StripIdempotent == st.phase = "twice" => st.twice = st.once

\* a glyph at the edge with whitespace behind it: both are removed at once
C14_Witness ==
    /\ st.phase = "twice"
    /\ st.s = <<"(c)", " ", "a">>
    /\ st.once = <<"a">>

\* the requests of a sweep, in the order it made them
CallsBy(by) == SelectSeq(sw.calls, LAMBDA c : c.by = by)

\* the sweep asked the server to delete something (answered or not)
DeleteCalls(by) == { i \in DOMAIN sw.calls :
                        sw.calls[i].by = by /\ sw.calls[i].op \in {"delete", "delete_failed"} }

\* C15: the dangerous-filetype sweep never asks the server to delete, whatever
\* the inventory holds, records with a denylisted extension included; it only
\* writes log records.
C15_DangerousSweepNeverDeletes == DeleteCalls("find_dangerous_filetypes") = {}

\* the sweep found a record with a .bat file, and the server still holds it
\* when run() is over
C15_Witness ==
    /\ sw.pc = "done"
    /\ [by |-> "find_dangerous_filetypes", what |-> "found"] \in sw.log
    /\ \E i \in DOMAIN sw.games :
          /\ sw.games[i].platform_id = 1
          /\ \E f \in DOMAIN sw.games[i].files : sw.games[i].files[f] = ScriptBat

\* the ids of the items of at most `limit` bytes
UpTo(items, limit) ==
    { items[i].id : i \in { j \in DOMAIN items : items[j].fs_size_bytes <= limit } }

\* after a non-empty inventory was fetched by the sweep `by`, its next request
\* is the deletion of exactly the ids of the items of at most `limit` bytes,
\* and it makes none if there are no such items
SelectsExactly(by, limit) ==
    LET calls == CallsBy(by)
    IN \A i \in DOMAIN calls :
          (calls[i].op = "filter" /\ calls[i].items /= <<>>) =>
              LET ids == UpTo(calls[i].items, limit)
              IN IF ids = {} THEN i = Len(calls)
                 ELSE /\ i < Len(calls)
                      /\ calls[i + 1].op \in {"delete", "delete_failed"}
                      /\ calls[i + 1].ids = ids

\* C16: the fragmented sweep selects exactly the records with fs_size_bytes
\* <= 1100 (1100 is selected, 1101 is not) and the empty sweep exactly those
\* with fs_size_bytes = 0, so a record of 0 bytes that both sweeps fetch is
\* selected by both.
C16_FragmentedThresholdInclusive ==
    /\ SelectsExactly("find_fragmented", FRAGMENTED_MAX_BYTES)
    /\ SelectsExactly("find_empty", 0)

\* the deletion asked by the empty sweep failed, and the fragmented sweep
\* selected the same record of 0 bytes together with one of 1100 bytes
C16_Witness ==
    LET e == CallsBy("find_empty")
        f == CallsBy("find_fragmented")
    IN /\ Len(e) = 2 /\ Len(f) = 2
       /\ e[2].op = "delete_failed" /\ e[2].ids = {1}
       /\ f[1].op = "filter" /\ Len(f[1].items) = 2
       /\ f[1].items[1].fs_size_bytes = 0
       /\ f[1].items[2].fs_size_bytes = FRAGMENTED_MAX_BYTES
       /\ f[2].op = "delete" /\ f[2].ids = {1, 2}

\* the sweeps run() calls with this configuration
EnabledSweeps ==
    (IF sw.cfg.ROMM_EMPTY_DIRS THEN {"find_empty", "find_fragmented"} ELSE {})
    \cup (IF sw.cfg.ROMM_MISSING_EXE THEN {"find_missing_exe"} ELSE {})
    \cup (IF sw.cfg.ROMM_SCAN_DANGEROUS_FILETYPES THEN {"find_dangerous_filetypes"} ELSE {})

\* C17: a sweep that could not resolve the platform id makes no request after
\* that (it fetches no inventory of all platforms and deletes nothing), a sweep
\* whose inventory request failed deletes nothing, and every sweep run() is
\* configured to call is still started.
C17_FailureAbortsOnlyTheSweep ==
    /\ \A i \in DOMAIN sw.calls :
          LET c == sw.calls[i]
          IN /\ [by |-> c.by, what |-> "platform_unresolved"] \notin sw.log
             /\ [by |-> c.by, what |-> "fetch_failed"] \in sw.log =>
                   c.op \notin {"delete", "delete_failed"}
    /\ (sw.pc = "done" /\ sw.cfg.ROMM_ENABLE) =>
          \A by \in EnabledSweeps : [by |-> by, what |-> "started"] \in sw.log

\* the last frame read says the scan is done, or stopped
GotDone == Contains(ws.result, SCAN_DONE)

GotStop == Contains(ws.result, SCAN_STOP)

\* C18: once the handshake is over, a frame containing "scan:done" or
\* "scan:stop" ends the session at that frame: the loop is left, that frame
\* stays the last one read, it is not answered with a pong, and scan_library
\* returns True, however many pings or other frames were read before it.
C18_CompletionFrameEndsSession ==
    /\ (GotDone \/ GotStop) =>
          /\ ws.state \in {"closing", "returned"}
          /\ ws.by = "frame"
          /\ ws.terminal = IF GotDone THEN "Done" ELSE "Stopped"
          /\ ws.state = "returned" => (ws.returned = "True" /\ ~ws.open)
    /\ \A i \in DOMAIN closedScans :
          closedScans[i].terminal \in {"Done", "Stopped"} =>
              (closedScans[i].returned = "True" /\ ~closedScans[i].open)

\* the stop frame came in the third receive or later (two receives of half
\* the ceiling each went before it), and the call returned True
C18_Witness ==
    /\ ws.state = "returned"
    /\ GotStop
    /\ ws.elapsed = timeout
    /\ ws.returned = "True"

\* move_torrent_folder returned from a call with a source directory and an
\* existing destination
MoveOntoExisting == MoveReturnedFromDir /\ Exists(mv.fs, mv.destination)

\* shutil.rmtree(destination) went through
DeletionCompleted == IsDir(mv.fs, mv.destination) /\ mv.env.rmtree = "ok"

\* C19: when the destination exists and deleting it fails,
\* move_torrent_folder returns (false, false, false) and attempts no move:
\* neither os.rename nor shutil.move is called and the source stays where it is.
C19_DeleteFailureAborts ==
    (MoveOntoExisting /\ ~DeletionCompleted) =>
        /\ ~mv.out.success /\ ~mv.out.replaced /\ ~mv.out.new
        /\ mv.out.ops = <<"rmtree">>
        /\ IsDir(mv.out.fs, mv.source)
        /\ mv.source /= mv.destination => mv.out.fs[mv.source] = mv.fs[mv.source]

\* the old version was left half deleted, and the new one is still in the
\* download folder
C19_Witness ==
    /\ MoveOntoExisting
    /\ mv.source /= mv.destination
    /\ mv.env.rmtree = "partial"
    /\ mv.out.fs[mv.destination].kind = "partial"
    /\ mv.out.fs[mv.source] = mv.fs[mv.source]
    /\ mv.out.ops = <<"rmtree">>

\* the calls were made in the order rmtree, rename, move: each one only after
\* the one before it in this list, when that one was made at all
InOrder(ops) ==
    ops \in { <<>>, <<"rmtree">>, <<"rename">>, <<"rmtree", "rename">>,
              <<"rename", "move">>, <<"rmtree", "rename", "move">> }

\* C20: when the destination existed and was deleted and then both os.rename
\* and shutil.move fail, move_torrent_folder returns (false, true, false);
\* os.rename is always tried before shutil.move, and only after the deletion
\* of an existing destination went through.
C20_FailureKeepsReplaced ==
    /\ (MoveOntoExisting /\ DeletionCompleted /\ ~mv.out.success) =>
          /\ mv.out.replaced /\ ~mv.out.new
          /\ mv.out.ops = <<"rmtree", "rename", "move">>
          /\ ~Moved
    /\ mv.phase = "returned" =>
          /\ InOrder(mv.out.ops)
          /\ (MoveOntoExisting /\ \E i \in DOMAIN mv.out.ops : mv.out.ops[i] = "rename") =>
                (DeletionCompleted /\ mv.out.ops[1] = "rmtree")

\* the old version is gone, the rename failed, the copy failed half way, and
\* the new version is still in the download folder
C20_Witness ==
    /\ MoveOntoExisting /\ DeletionCompleted
    /\ mv.source /= mv.destination
    /\ ~mv.env.rename /\ mv.env.move = "copyFail"
    /\ ~mv.out.success /\ mv.out.replaced /\ ~mv.out.new
    /\ mv.out.fs[mv.source] = mv.fs[mv.source]
    /\ mv.out.fs[mv.destination].kind = "partial"

\* the scan command of this session has gone out
ScanCommandSent == \E i \in DOMAIN ws.io : ws.io[i] = "send_scan"

\* C21: in the loop every frame that is exactly "2" is answered with exactly
\* one "3" before the next ws.recv() and the session goes on waiting; no "3"
\* is sent for any other frame, and none before the scan command.
C21_PingAnsweredOnce ==
    /\ ws.pongs \in {0, 1}
    /\ ws.state = "send_pong" => (ws.result = Ping /\ ws.pongs = 0 /\ ScanCommandSent)
    /\ ws.pongs = 1 => (ws.result = Ping /\ ScanCommandSent)
    /\ (ws.state = "awaiting" /\ ws.result = Ping) => ws.pongs = 1
    /\ (ws.pongs = 1 /\ ws.state /= "awaiting") => ws.by = "ceiling"
    /\ ~ScanCommandSent => (ws.pongs = 0 /\ ws.result = <<>>)

\* a ping has been answered and the loop is about to receive again
C21_Witness ==
    /\ ws.state = "awaiting"
    /\ ws.result = Ping
    /\ ws.pongs = 1
    /\ ~CeilingReached(ws.elapsed)

\* a session is between the entry of scan_library and its return to torrent_manager
Running == ws.state /= "idle"

\* the i-th closed session ended in a terminal state and scan_library returned
Ended(i) ==
    /\ closedScans[i].terminal \in {"Done", "Stopped", "TimedOut", "Errored",
                                     "ConnectFailed", "HandshakeFailed"}
    /\ closedScans[i].returned \in {"True", "False"}

\* C22: scan sessions are strictly sequential: torrent_manager is inside
\* scan_after_import exactly while a quick session runs and inside
\* scan_file_changes exactly while a hashes session runs, so never two at
\* once; when both triggers fired, the quick session has ended and returned
\* before the hashes session starts connecting; a cycle triggers at most one
\* quick and at most one hashes session, in this order.
C22_SessionsSequential ==
    /\ scans \in {<<>>, <<"quick">>, <<"hashes">>, <<"quick", "hashes">>}
    /\ Len(closedScans) + (IF Running THEN 1 ELSE 0) <= Len(scans)
    /\ \A i \in 1..Len(closedScans) : Ended(i)
    /\ \A i, j \in 1..Len(closedScans) :
          (i < j) => (closedScans[i].scan_type = "quick" /\ closedScans[j].scan_type = "hashes")
    /\ Running <=> pc \in {"scan_after_import", "scan_file_changes"}
    /\ pc = "scan_after_import" => (ws.scan_type = "quick" /\ closedScans = <<>>)
    /\ pc = "scan_file_changes" =>
          /\ ws.scan_type = "hashes"
          /\ \A i \in 1..Len(closedScans) : closedScans[i].scan_type = "quick"

\* the hashes session is connecting after the quick session of the same cycle
\* has ended
C22_Witness ==
    /\ scans = <<"quick", "hashes">>
    /\ Len(closedScans) = 1 /\ closedScans[1].scan_type = "quick" /\ Ended(1)
    /\ ws.scan_type = "hashes" /\ ws.state = "connect"

\* the Stopped torrents of a listing, in listing order
StoppedOf(listing) == SelectSeq(listing, LAMBDA t : t.state = "stoppedUP")

\* the first min(n, Len(seq)) elements of seq
FirstN(seq, n) == SubSeq(seq, 1, IF n < Len(seq) THEN n ELSE Len(seq))

\* C23: with a cap N > 0 the torrents the loop is given to process are the
\* first min(N, k) Stopped torrents of the listing, k being the number of
\* Stopped torrents listed: no Stopped torrent is passed over because of
\* non-Stopped torrents listed before it.
C23_CapCountsStopped ==
    [][(pc = "start" /\ pc' = "loop" /\ cfg.MAX_TORRENTS_PER_RUN > 0) =>
          StoppedOf(completed_torrents') =
             FirstN(StoppedOf(completed_torrents), cfg.MAX_TORRENTS_PER_RUN)]_vars

TerminalStates ==
    {"Done", "Stopped", "TimedOut", "Errored", "ConnectFailed", "HandshakeFailed"}

\* scan_library has returned from a terminal state
Returned == ws.state = "returned" /\ ws.terminal \in TerminalStates

\* C24: every scan session terminates: once scan_library is entered it
\* eventually returns from one of the terminal states, whatever frames arrive,
\* an endless stream of pings or unrelated frames included.
C24_SessionTerminates == Running ~> Returned

\* a session that saw nothing but pings has been ended by the ceiling
C24_Witness ==
    /\ Returned
    /\ ws.terminal = "TimedOut" /\ ws.by = "ceiling"
    /\ ws.pingsOnly /\ ws.result = Ping

\* lines 273-282 in the order of the code
Handshake == <<"recv_initial", "send_40", "recv_confirm", "send_scan">>

IsPrefix(a, b) == Len(a) <= Len(b) /\ a = SubSeq(b, 1, Len(a))

\* C25: the scan command goes out at most once per session and only after the
\* initial frame was received, "40" sent and the confirmation frame received,
\* in this order; a session in the loop has sent it exactly once; when the
\* connection or one of these steps fails no scan command is sent and
\* scan_library returns False.
C25_ScanCommandAfterHandshake ==
    /\ IsPrefix(ws.io, Handshake)
    /\ ws.state \in {"awaiting", "send_pong", "closing"} => ws.io = Handshake
    /\ ws.state \in {"connect", "recv_initial"} => ws.io = <<>>
    /\ ws.terminal \in {"ConnectFailed", "HandshakeFailed"} =>
          /\ ws.state = "returned"
          /\ ~ScanCommandSent
          /\ ws.returned = "False"
    /\ (ws.state = "returned" /\ ~ScanCommandSent) =>
          (ws.terminal \in {"ConnectFailed", "HandshakeFailed"} /\ ws.returned = "False")
    /\ (ws.state = "returned" /\ ScanCommandSent) =>
          ws.terminal \in {"Done", "Stopped", "TimedOut", "Errored"}

\* the scan command has just gone out after the three steps, nothing read since
C25_Witness ==
    /\ ws.state = "awaiting"
    /\ ws.io = Handshake
    /\ ws.result = <<>>

\* every move torrent_manager could make next in this state returns new = True
\* whenever it returns success = True
SuccessIsNew ==
    \A i \in 1..Len(completed_torrents), n \in DestNames, env \in MoveEnv :
       LET m == move_torrent_folder(fs, completed_torrents[i].content_path, DestPath(n), env)
       IN m.success => m.new

\* C26: at every point of a cycle replaced_any implies new_any: a move that
\* returns success returns new as well, and the flags of a failed move are not
\* accumulated; so whenever line 159 owes a hashes scan, line 156 owed a quick
\* scan.
C26_ReplacedImpliesNew ==
    /\ replaced_any => new_any
    /\ pc = "loop" => SuccessIsNew

\* the loop has ended after replacing an old version in the library
C26_Witness ==
    /\ pc = "line146"
    /\ replaced_any /\ new_any
    /\ fs[DestPath(<<"A", "B">>)].kind = "dir"
    /\ fs[DestPath(<<"A", "B">>)].content /= "old"

====
